---- MODULE Spec2Model ----
(***************************************************************************)
(* Model of the Rancher upgrade planner (src/main.go): the request handler *)
(* of /api/plan-upgrade, PlanUpgrade, GetAllowedK8sUpgrades and the        *)
(* helpers they call.                                                      *)
(*                                                                         *)
(* A version string is a record [pfx, segs, meta, junk]:                   *)
(*   pfx   the number of leading "v" characters,                           *)
(*   segs  the dot-separated numeric segments as written,                  *)
(*   meta  the build metadata after "+" ("" when there is none),           *)
(*   junk  trailing text that no version may carry ("" when well formed).  *)
(* The pools below carry no pre-release identifiers.                       *)
(***************************************************************************)
EXTENDS Integers, Sequences, FiniteSets, TLC

VARIABLES paths, req, run, prev, pc,
          versions, keyVersions, idx, platformLower, currentRancher,
          currentK8s, upgradeSteps, err,
          k8sVersions, currentVer, allowSkip, upgrades,
          backing, response,
          requestTimestamps, totalRequestsLast60Seconds, mu, clock, gpc, now,
          received, calls

vars == <<paths, req, run, prev, pc, versions, keyVersions, idx,
          platformLower, currentRancher, currentK8s, upgradeSteps, err,
          k8sVersions, currentVer, allowSkip, upgrades, backing, response,
          requestTimestamps, totalRequestsLast60Seconds, mu, clock, gpc, now,
          received, calls>>

\* the variables of the planner and those of the request metrics
plannerVars == <<paths, req, run, prev, pc, versions, keyVersions, idx,
                 platformLower, currentRancher, currentK8s, upgradeSteps, err,
                 k8sVersions, currentVer, allowSkip, upgrades, backing,
                 response>>

metricsVars == <<requestTimestamps, totalRequestsLast60Seconds, mu, clock,
                 gpc, now, received, calls>>

----------------------------------------------------------------------------
(* Strings *)

Str(pfx, segs, meta, junk) ==
    [pfx |-> pfx, segs |-> segs, meta |-> meta, junk |-> junk]

Plain(segs) == Str(0, segs, "", "")

\* strings.TrimPrefix(v, "v")
cleanVersion(v) == IF v.pfx > 0 THEN [v EXCEPT !.pfx = v.pfx - 1] ELSE v

\* "v" + s
PrependV(s) == [s EXCEPT !.pfx = s.pfx + 1]

\* strings.HasSuffix(v, ".9"): the text ends in a dot followed by the digit 9
HasSuffixDot9(v) ==
    IF v.junk # "" THEN v.junk = "!.9"
    ELSE IF v.meta # "" THEN FALSE
    ELSE Len(v.segs) >= 2 /\ v.segs[Len(v.segs)] = 9

\* mutant: letter case is kept
ToLower_Identity(s) == s

\* strings.ToLower on the platform identifiers
ToLower(s) ==
    CASE s = "RKE2" -> "rke2"
      [] s = "Rke1" -> "rke1"
      [] s = "K3S"  -> "k3s"
      [] s = "EKS"  -> "eks"
      [] OTHER      -> s

----------------------------------------------------------------------------
(* github.com/hashicorp/go-version *)

\* version.NewVersion succeeds: at most one leading "v", segments, no junk
Parses(s) == s.pfx <= 1 /\ s.junk = "" /\ Len(s.segs) >= 1

\* fewer than three segments are padded with zeros
PadSegments(segs) ==
    [k \in 1..(IF Len(segs) < 3 THEN 3 ELSE Len(segs)) |->
        IF k <= Len(segs) THEN segs[k] ELSE 0]

\* version.NewVersion(s) for a string that parses
NewVersion(s) ==
    [segments |-> PadSegments(s.segs), metadata |-> s.meta, original |-> s]

\* (*Version).Original
Original(v) == v.original

\* (*Version).String: segments joined by ".", then "+" metadata
String(v) == Str(0, v.segments, v.metadata, "")

\* (*Version).Segments
Segments(v) == v.segments

RECURSIVE CompareFrom(_, _, _)
CompareFrom(x, y, k) ==
    IF k > Len(x) /\ k > Len(y) THEN 0
    ELSE LET a == IF k <= Len(x) THEN x[k] ELSE 0
             b == IF k <= Len(y) THEN y[k] ELSE 0
         IN  IF a < b THEN -1 ELSE IF a > b THEN 1 ELSE CompareFrom(x, y, k + 1)

\* (*Version).Compare: by segments; build metadata is ignored
Compare(v, w) == CompareFrom(v.segments, w.segments, 1)

GreaterThan(v, w)     == Compare(v, w) > 0
LessThan(v, w)        == Compare(v, w) < 0
LessThanOrEqual(v, w) == Compare(v, w) <= 0
Equal(v, w)           == Compare(v, w) = 0

RemoveAt(s, k) == SubSeq(s, 1, k - 1) \o SubSeq(s, k + 1, Len(s))

\* sort.Sort(version.Collection(s)): every ascending arrangement of s; the
\* sort is not stable, so versions that compare equal may end in any order
RECURSIVE SortOutcomes(_)
SortOutcomes(s) ==
    IF s = <<>> THEN {<<>>}
    ELSE UNION { { <<s[k]>> \o t : t \in SortOutcomes(RemoveAt(s, k)) } :
                 k \in { j \in 1..Len(s) :
                           \A m \in 1..Len(s) : ~LessThan(s[m], s[j]) } }

\* the elements of a map, in the order one iteration happens to yield them
RECURSIVE SetToSeq(_)
SetToSeq(S) ==
    IF S = {} THEN <<>>
    ELSE LET x == CHOOSE y \in S : TRUE IN <<x>> \o SetToSeq(S \ {x})

SeqToSet(s) == { s[k] : k \in 1..Len(s) }

----------------------------------------------------------------------------
(* Data types of main.go *)

\* Platform (Notes is never read by the planner)
Platform(name, minV, maxV) ==
    [Platform |-> name, MinVersion |-> minV, MaxVersion |-> maxV]

\* UpgradeStep
UpgradeStep(type, platform, from, to) ==
    [Type |-> type, Platform |-> platform, From |-> from, To |-> to]

\* mutant: the key is looked up without its leading "v"
RancherManager_Cleaned(p, key) ==
    IF cleanVersion(key) \in DOMAIN p THEN p[cleanVersion(key)]
    ELSE [SupportedPlatforms |-> <<>>]

\* paths.RancherManager[key]: the zero value when the key is absent
RancherManager(p, key) ==
    IF key \in DOMAIN p THEN p[key] ELSE [SupportedPlatforms |-> <<>>]

----------------------------------------------------------------------------
(* GetKeyVersions *)

\* mutant: the exact-match entries of the policy are lost
IsKeyVersionString_SuffixOnly(v) == HasSuffixDot9(v)

IsKeyVersionString(v) ==
    \/ HasSuffixDot9(v)
    \/ v = Plain(<<2, 7, 5>>)
    \/ v = Plain(<<2, 8, 8>>)
    \/ v = Plain(<<2, 9, 2>>)

\* every result GetKeyVersions can return for the list vs
GetKeyVersions(vs) ==
    LET kept   == SelectSeq(vs, LAMBDA v : IsKeyVersionString(v) /\ Parses(v))
        parsed == [k \in 1..Len(kept) |-> NewVersion(kept[k])]
    IN  { [k \in 1..Len(t) |-> String(t[k])] : t \in SortOutcomes(parsed) }

----------------------------------------------------------------------------
(* getMinorVersionsBetween *)

\* the loop of lines 297-316: the versions it appends, starting from cur
RECURSIVE MinorLoop(_, _)
MinorLoop(cur, maxVer) ==
    LET segments == Segments(cur)
    IN  IF Len(segments) < 2 THEN <<>>
        ELSE LET newVer == NewVersion(Plain(<<segments[1], segments[2] + 1, 0>>))
             IN  IF GreaterThan(newVer, maxVer) THEN <<>>
                 ELSE <<newVer>> \o MinorLoop(newVer, maxVer)

\* the iterations of the loop a request can make before the process is out
\* of memory: every iteration keeps one more version alive
IterationLimit == 8

\* the loop of lines 297-316 has not left after n more iterations from cur.
\* It leaves when newVer is greater than maxVer; its other exits (fewer than
\* two segments, a string that does not parse) need minor + 1 to overflow
\* int64, 2^63 iterations on.
RECURSIVE StillRunning(_, _, _)
StillRunning(cur, maxVer, n) ==
    IF n = 0 THEN TRUE
    ELSE LET segments == Segments(cur)
             newVer   == NewVersion(Plain(<<segments[1], segments[2] + 1, 0>>))
         IN  IF GreaterThan(newVer, maxVer) THEN FALSE
             ELSE StillRunning(newVer, maxVer, n - 1)

\* mutant: the maximum is not added as given
getMinorVersionsBetween_NoExactMax(minVer, maxVer, platformData) ==
    LET minStr == cleanVersion(platformData.MinVersion)
        first  == IF Parses(minStr) THEN <<NewVersion(minStr)>> ELSE <<>>
    IN  first \o MinorLoop(minVer, maxVer)

getMinorVersionsBetween(minVer, maxVer, platformData) ==
    LET minStr == cleanVersion(platformData.MinVersion)
        maxStr == cleanVersion(platformData.MaxVersion)
        first  == IF Parses(minStr) THEN <<NewVersion(minStr)>> ELSE <<>>
        second == IF Parses(maxStr) /\ ~Equal(NewVersion(maxStr), NewVersion(minStr))
                  THEN <<NewVersion(maxStr)>> ELSE <<>>
        \* a loop that outlasts the process returns nothing to anyone
        third  == IF StillRunning(minVer, maxVer, IterationLimit) THEN <<>>
                  ELSE MinorLoop(minVer, maxVer)
    IN  first \o second \o third

----------------------------------------------------------------------------
(* getSortedK8sVersions *)

\* mutant: the entries are not filtered by platform
EntryVersions_AnyPlatform(platform, p) ==
    LET minVerStr == cleanVersion(p.MinVersion)
        maxVerStr == cleanVersion(p.MaxVersion)
    IN  IF ~Parses(minVerStr) \/ ~Parses(maxVerStr) THEN {}
        ELSE SeqToSet(getMinorVersionsBetween(NewVersion(minVerStr),
                                              NewVersion(maxVerStr), p))

\* the versions one entry contributes to versionSet (lines 248-264)
EntryVersions(platform, p) ==
    IF ToLower(p.Platform) # ToLower(platform) THEN {}
    ELSE LET minVerStr == cleanVersion(p.MinVersion)
             maxVerStr == cleanVersion(p.MaxVersion)
         IN  IF ~Parses(minVerStr) \/ ~Parses(maxVerStr) THEN {}
             ELSE SeqToSet(getMinorVersionsBetween(NewVersion(minVerStr),
                                                   NewVersion(maxVerStr), p))

\* versionSet after the loop over both entries' platforms: the map is keyed
\* by Original(), and a version record carries its original string
VersionSet(platform, r1, r2) ==
    LET platforms == r1.SupportedPlatforms \o r2.SupportedPlatforms
    IN  UNION { EntryVersions(platform, platforms[k]) : k \in 1..Len(platforms) }

\* the call getSortedK8sVersions(platform, r1, r2) meets an entry whose
\* expansion outlasts the memory of the process
Exhausts(platform, r1, r2) ==
    LET platforms == r1.SupportedPlatforms \o r2.SupportedPlatforms
    IN  \E k \in 1..Len(platforms) :
           LET p         == platforms[k]
               minVerStr == cleanVersion(p.MinVersion)
               maxVerStr == cleanVersion(p.MaxVersion)
           IN  /\ ToLower(p.Platform) = ToLower(platform)
               /\ Parses(minVerStr) /\ Parses(maxVerStr)
               /\ StillRunning(NewVersion(minVerStr), NewVersion(maxVerStr),
                               IterationLimit)

\* cap() of a slice that encoding/json decoded n elements into: the decoder
\* grows the slice one element at a time, and growslice doubles the capacity
SliceCap(n) ==
    IF n = 0 THEN 0 ELSE CHOOSE c \in { 1, 2, 4, 8, 16 } : c >= n /\ c < 2 * n

\* the spare slots behind a slice after append(a, b...) (line 244): b is
\* copied into them when it fits, otherwise a new array is allocated
SpareAfterAppend(spare, b) ==
    IF Len(b) <= Len(spare)
    THEN b \o SubSeq(spare, Len(b) + 1, Len(spare))
    ELSE spare

\* every result getSortedK8sVersions can return
getSortedK8sVersions(platform, r1, r2) ==
    SortOutcomes(SetToSeq(VersionSet(platform, r1, r2)))

----------------------------------------------------------------------------
(* versionInList, findNextAcceptableK8sVersion *)

versionInList(ver, list) == \E k \in 1..Len(list) : Equal(list[k], ver)

\* mutant: no platform may skip
MaxAllowedMinor_One(cur, skip) == Segments(cur)[2] + 1

\* mutant: skipping platforms may jump three minors
MaxAllowedMinor_Three(cur, skip) ==
    IF skip THEN Segments(cur)[2] + 3 ELSE Segments(cur)[2] + 1

\* currentMinor + 1, or + 2 when skipping is allowed (lines 202-206)
MaxAllowedMinor(cur, skip) ==
    IF skip THEN Segments(cur)[2] + 2 ELSE Segments(cur)[2] + 1

\* mutant: the scan passes over the versions below the current one only,
\* not the current one itself
RECURSIVE ScanFrom_EqualNotSkipped(_, _, _, _, _)
ScanFrom_EqualNotSkipped(cur, list, skip, k, candidate) ==
    IF k > Len(list) THEN candidate
    ELSE LET v == list[k]
         IN  IF LessThan(v, cur)
                 THEN ScanFrom_EqualNotSkipped(cur, list, skip, k + 1, candidate)
             ELSE IF Len(Segments(v)) < 2
                 THEN ScanFrom_EqualNotSkipped(cur, list, skip, k + 1, candidate)
             ELSE IF Segments(v)[2] > MaxAllowedMinor(cur, skip)
                 THEN candidate
             ELSE <<v>>

\* the scan of lines 209-227 from position k on; candidate is <<>> (nil) or
\* <<v>>
RECURSIVE ScanFrom(_, _, _, _, _)
ScanFrom(cur, list, skip, k, candidate) ==
    IF k > Len(list) THEN candidate
    ELSE LET v == list[k]
         IN  IF LessThanOrEqual(v, cur)
                 THEN ScanFrom(cur, list, skip, k + 1, candidate)
             ELSE IF Len(Segments(v)) < 2
                 THEN ScanFrom(cur, list, skip, k + 1, candidate)
             ELSE IF Segments(v)[2] > MaxAllowedMinor(cur, skip)
                 THEN candidate
             ELSE IF ~skip
                 THEN <<v>>
             ELSE ScanFrom(cur, list, skip, k + 1, <<v>>)

\* mutant: the scan always stops at the first acceptable version
findNextAcceptableK8sVersion_First(cur, list, skip) ==
    IF Len(Segments(cur)) < 2 THEN <<>>
    ELSE ScanFrom(cur, list, FALSE, 1, <<>>)

\* <<>> stands for nil
findNextAcceptableK8sVersion(cur, list, skip) ==
    IF Len(Segments(cur)) < 2 THEN <<>>
    ELSE ScanFrom(cur, list, skip, 1, <<>>)

\* mutant: every platform may skip
AllowSkip_All(platform) == TRUE

\* mutant: only rke2 may skip
AllowSkip_Rke2Only(platform) == platform = "rke2"

\* line 176
AllowSkip(platform) ==
    platform = "rke1" \/ platform = "rke2" \/ platform = "k3s"

----------------------------------------------------------------------------
(* Inputs: the compatibility matrix loaded at start and the request *)

\* the minor version the patch-level range of the pool ends at
PatchTop == 26

K8s(minor, patch) == Plain(<<1, minor, patch>>)

\* the [min_version, max_version] ranges the matrix entries are drawn from
Ranges ==
    { <<K8s(24, 0), K8s(27, 0)>>,
      <<K8s(26, 0), K8s(29, 0)>>,
      <<PrependV(K8s(25, 4)), PrependV(K8s(PatchTop, 5))>>,
      <<Plain(<<1, 26>>), Str(0, <<1, 27, 0>>, "m", "")>>,
      <<Plain(<<2, 0, 0>>), Plain(<<2, 0, 0>>)>> }

\* one management version's entry: the same range for rke2 and for EKS
Entry(r) ==
    [SupportedPlatforms |-> << Platform("rke2", r[1], r[2]),
                               Platform("EKS", r[1], r[2]) >>]

\* the management versions a matrix may hold
RancherPool == { Plain(<<2, 8, 0>>), Plain(<<2, 8, 9>>), Plain(<<2, 9, 2>>) }

Matrices ==
    UNION { [D -> { Entry(r) : r \in Ranges }] : D \in SUBSET RancherPool }

\* ranges of malformed or unusual entries: the maximum has another major
\* version, the minimum is above the maximum, the endpoints differ in build
\* metadata only
CrossMajorRange == <<K8s(29, 0), Plain(<<2, 0, 0>>)>>
ReversedRange   == <<K8s(27, 0), K8s(25, 0)>>
EqualEndsRange  == <<K8s(26, 0), Str(0, <<1, 26, 0>>, "m", "")>>

SpecialRanges == { CrossMajorRange, ReversedRange, EqualEndsRange }

\* a matrix of the management versions 2.8.0 and 2.9.2
Pair(e1, e2) ==
    [k \in { Plain(<<2, 8, 0>>), Plain(<<2, 9, 2>>) } |->
        IF k = Plain(<<2, 8, 0>>) THEN e1 ELSE e2]

\* a matrix key that ends in ".9" and is no version: "2.9!.9"
BadKey == Str(0, <<2, 9>>, "", "!.9")

BadKeyMatrix ==
    [k \in { Plain(<<2, 8, 0>>), Plain(<<2, 8, 9>>), BadKey } |->
        Entry(<<K8s(24, 0), K8s(27, 0)>>)]

\* platform lists of three entries and of one entry
UnevenMatrix ==
    Pair([SupportedPlatforms |->
             << Platform("rke2", K8s(24, 0), K8s(27, 0)),
                Platform("EKS", K8s(24, 0), K8s(27, 0)),
                Platform("k3s", K8s(24, 0), K8s(27, 0)) >>],
         [SupportedPlatforms |-> << Platform("rke2", K8s(26, 0), K8s(29, 0)) >>])

\* an entry whose min_version is no version, for the version left
MalformedMatrix ==
    Pair(Entry(<<Str(0, <<1, 24, 0>>, "", "!"), K8s(27, 0)>>),
         Entry(<<K8s(26, 0), K8s(29, 0)>>))

SpecialMatrices ==
    { Pair(Entry(r), Entry(r)) : r \in SpecialRanges }
    \cup { Pair(Entry(<<K8s(24, 0), K8s(27, 0)>>), Entry(r)) : r \in SpecialRanges }
    \cup { BadKeyMatrix, UnevenMatrix, MalformedMatrix }

RequestPlatforms == { "rke2", "RKE2", "Rke1", "k3s", "eks", "gke" }

RequestRanchers ==
    { Plain(<<2, 8, 0>>), PrependV(Plain(<<2, 8, 0>>)), Plain(<<2, 8, 9>>),
      Plain(<<2, 9, 2>>), Str(0, <<2, 8, 0>>, "", "!") }

RequestK8s ==
    { K8s(24, 0), PrependV(K8s(25, 4)), K8s(22, 0), K8s(30, 0),
      Str(0, <<1, 24, 0>>, "", "!") }

Requests ==
    [platform : RequestPlatforms, rancher : RequestRanchers, k8s : RequestK8s]

\* a version variable that holds nothing yet
NoVersion == [segments |-> <<>>, metadata |-> "", original |-> Plain(<<>>)]

NoRequest == [platform |-> "", rancher |-> Plain(<<>>), k8s |-> Plain(<<>>)]

\* the zero value of Platform, which fills unused slots of a backing array
ZeroPlatform == Platform("", Plain(<<>>), Plain(<<>>))

\* the slots between len() and cap() of every SupportedPlatforms slice of the
\* matrix p, as the loader leaves them
LoadedBacking(p) ==
    [k \in DOMAIN p |->
        [j \in 1..(SliceCap(Len(p[k].SupportedPlatforms))
                     - Len(p[k].SupportedPlatforms)) |-> ZeroPlatform]]

\* no response has been sent
NoResponse == [status |-> 0, body |-> <<>>]

\* the goroutines that serve requests at the same time
Goroutines == { 1, 2 }

\* the calls of updateRequestTimestamps a run makes
MaxCalls == 4

\* the time a run lasts, in seconds
MaxClock == 130

\* the seconds by which the clock moves between two events
TickSizes == { 20, 30, 60 }

\* the length of the sliding window in seconds (line 460)
Window == 60

\* the request metrics before any request
MetricsStart ==
    /\ requestTimestamps = <<>>
    /\ totalRequestsLast60Seconds = 0
    /\ mu = 0
    /\ clock = 0
    /\ gpc = [g \in Goroutines |-> "idle"]
    /\ now = [g \in Goroutines |-> 0]
    /\ received = <<>>
    /\ calls = 0

----------------------------------------------------------------------------
(* The state machine *)

Init ==
    /\ paths \in Matrices \cup SpecialMatrices
    /\ req \in Requests
    /\ run = 1
    /\ prev = [req |-> NoRequest, plan |-> <<>>]
    /\ pc = "request"
    /\ versions = <<>>
    /\ keyVersions = <<>>
    /\ idx = 0
    /\ platformLower = ""
    /\ currentRancher = Plain(<<>>)
    /\ currentK8s = Plain(<<>>)
    /\ upgradeSteps = <<>>
    /\ err = FALSE
    /\ k8sVersions = <<>>
    /\ currentVer = NoVersion
    /\ allowSkip = FALSE
    /\ upgrades = <<>>
    /\ backing = LoadedBacking(paths)
    /\ response = NoResponse
    /\ MetricsStart

\* the versions list the handler passes on (lines 410-430): the matrix keys
\* that parse, sorted, each rendered by String()
SortedKeyVersions(p) ==
    LET keys   == SetToSeq({ k \in DOMAIN p : Parses(k) })
        parsed == [k \in 1..Len(keys) |-> NewVersion(keys[k])]
    IN  { [k \in 1..Len(t) |-> String(t[k])] : t \in SortOutcomes(parsed) }

\* the handler of /api/plan-upgrade up to its call of PlanUpgrade
Handler ==
    /\ pc = "request"
    /\ versions' \in SortedKeyVersions(paths)
    /\ currentRancher' = req.rancher
    /\ currentK8s' = req.k8s
    /\ pc' = "plan"
    /\ UNCHANGED <<paths, req, run, prev, keyVersions, idx, platformLower,
                   upgradeSteps, err, k8sVersions, currentVer, allowSkip,
                   upgrades, backing, response>>
    /\ UNCHANGED metricsVars

\* mutant: a current management version that does not parse is planned from
PlanStart_ErrorIgnored ==
    /\ pc = "plan"
    /\ keyVersions' \in GetKeyVersions(versions)
    /\ platformLower' = ToLower(req.platform)
    /\ upgradeSteps' = <<>>
    /\ idx' = 1
    /\ err' = FALSE
    /\ pc' = "loop"
    /\ UNCHANGED <<paths, req, run, prev, versions, currentRancher, currentK8s,
                   k8sVersions, currentVer, allowSkip, upgrades, backing,
                   response>>
    /\ UNCHANGED metricsVars

\* PlanUpgrade, lines 117-126. currentRancherVersion is not a variable of
\* its own: lines 123 and 151-152 keep it the parse of currentRancher, and
\* the loop actions read it as NewVersion(currentRancher).
PlanStart ==
    /\ pc = "plan"
    /\ keyVersions' \in GetKeyVersions(versions)
    /\ platformLower' = ToLower(req.platform)
    /\ upgradeSteps' = <<>>
    /\ IF Parses(currentRancher)
       THEN /\ idx' = 1
            /\ err' = FALSE
            /\ pc' = "loop"
       ELSE /\ idx' = idx
            /\ err' = TRUE
            /\ pc' = "done"
    /\ UNCHANGED <<paths, req, run, prev, versions, currentRancher, currentK8s,
                   k8sVersions, currentVer, allowSkip, upgrades, backing,
                   response>>
    /\ UNCHANGED metricsVars

\* mutant: a key version equal to the current one is visited too
IsNewer_OrEqual(nextVersion, currentRancherVersion) ==
    ~LessThan(nextVersion, currentRancherVersion)

\* line 134
IsNewer(nextVersion, currentRancherVersion) ==
    GreaterThan(nextVersion, currentRancherVersion)

\* the loop of line 128 has run out of key versions: return upgradeSteps, nil
PlanReturn ==
    /\ pc = "loop"
    /\ idx > Len(keyVersions)
    /\ pc' = "done"
    /\ UNCHANGED <<paths, req, run, prev, versions, keyVersions, idx,
                   platformLower, currentRancher, currentK8s, upgradeSteps,
                   err, k8sVersions, currentVer, allowSkip, upgrades, backing,
                   response>>
    /\ UNCHANGED metricsVars

\* one iteration of the loop of line 128 that visits nothing: the key
\* version does not parse (return nil, error) or is not newer
LoopSkip ==
    /\ pc = "loop"
    /\ idx <= Len(keyVersions)
    /\ LET v == keyVersions[idx]
       IN  IF ~Parses(v)
           THEN /\ upgradeSteps' = <<>>
                /\ err' = TRUE
                /\ idx' = idx
                /\ pc' = "done"
           ELSE /\ ~IsNewer(NewVersion(v), NewVersion(currentRancher))
                /\ idx' = idx + 1
                /\ UNCHANGED <<upgradeSteps, err, pc>>
    /\ UNCHANGED <<paths, req, run, prev, versions, keyVersions,
                   platformLower, currentRancher, currentK8s, k8sVersions,
                   currentVer, allowSkip, upgrades, backing, response>>
    /\ UNCHANGED metricsVars

\* the list GetAllowedK8sUpgrades steps through (lines 169-173): the start
\* is appended and the list sorted again when no element equals it
WithCurrent(ver, list) ==
    IF versionInList(ver, list) THEN {list}
    ELSE SortOutcomes(Append(list, ver))

\* the backing arrays of the matrix after the append of line 244 in the call
\* getSortedK8sVersions(platform, paths[key], r2): r1 is a copy of the matrix
\* entry and shares its array; the zero value of an absent key has none
BackingAfterAppend(key, r2) ==
    IF key \in DOMAIN paths
    THEN [backing EXCEPT ![key] = SpareAfterAppend(@, r2.SupportedPlatforms)]
    ELSE backing

\* mutant: a runtime version that does not parse is stepped from all the same
parseK8sVersionFails_Never(v) == FALSE

\* parseK8sVersion returns an error (lines 328-336)
parseK8sVersionFails(v) == ~Parses(cleanVersion(v))

\* one iteration that visits key version v: the Rancher step (lines
\* 136-138) and the call of GetAllowedK8sUpgrades up to its loop (lines
\* 141-143, 161-176)
LoopVisit ==
    /\ pc = "loop"
    /\ idx <= Len(keyVersions)
    /\ LET v  == keyVersions[idx]
           r1 == RancherManager(paths, currentRancher)
           r2 == RancherManager(paths, v)
       IN  /\ Parses(v)
           /\ IsNewer(NewVersion(v), NewVersion(currentRancher))
           /\ ~Exhausts(platformLower, r1, r2)
           /\ upgradeSteps' =
                  Append(upgradeSteps, UpgradeStep("Rancher", "", currentRancher, v))
           /\ upgrades' = <<>>
           /\ backing' = BackingAfterAppend(currentRancher, r2)
           /\ \E sorted \in getSortedK8sVersions(platformLower, r1, r2) :
                 IF parseK8sVersionFails(currentK8s)
                 THEN /\ k8sVersions' = sorted
                      /\ pc' = "ret"
                      /\ UNCHANGED <<currentVer, allowSkip>>
                 ELSE /\ currentVer' = NewVersion(cleanVersion(currentK8s))
                      /\ k8sVersions' \in WithCurrent(currentVer', sorted)
                      /\ allowSkip' = AllowSkip(platformLower)
                      /\ pc' = "step"
    /\ UNCHANGED <<paths, req, run, prev, versions, keyVersions, idx,
                   platformLower, currentRancher, currentK8s, err, response>>
    /\ UNCHANGED metricsVars

\* an iteration that visits key version v and never comes back: the loop of
\* getMinorVersionsBetween (lines 297-316) appends versions until the process
\* is out of memory, and the request is never answered
OutOfMemory ==
    /\ pc = "loop"
    /\ idx <= Len(keyVersions)
    /\ LET v  == keyVersions[idx]
           r1 == RancherManager(paths, currentRancher)
           r2 == RancherManager(paths, v)
       IN  /\ Parses(v)
           /\ IsNewer(NewVersion(v), NewVersion(currentRancher))
           /\ Exhausts(platformLower, r1, r2)
           /\ upgradeSteps' =
                  Append(upgradeSteps, UpgradeStep("Rancher", "", currentRancher, v))
           /\ upgrades' = <<>>
           /\ backing' = BackingAfterAppend(currentRancher, r2)
           /\ pc' = "crashed"
    /\ UNCHANGED <<paths, req, run, prev, versions, keyVersions, idx,
                   platformLower, currentRancher, currentK8s, err, k8sVersions,
                   currentVer, allowSkip, response>>
    /\ UNCHANGED metricsVars

\* one iteration of the loop of lines 178-191; nil ends the call
K8sStep ==
    /\ pc = "step"
    /\ LET nextVer == findNextAcceptableK8sVersion(currentVer, k8sVersions, allowSkip)
       IN  IF nextVer = <<>>
           THEN /\ pc' = "ret"
                /\ UNCHANGED <<upgrades, currentVer>>
           ELSE /\ upgrades' =
                      Append(upgrades,
                             UpgradeStep("Kubernetes", platformLower,
                                         PrependV(Original(currentVer)),
                                         PrependV(Original(nextVer[1]))))
                /\ currentVer' = nextVer[1]
                /\ pc' = pc
    /\ UNCHANGED <<paths, req, run, prev, versions, keyVersions, idx,
                   platformLower, currentRancher, currentK8s, upgradeSteps,
                   err, k8sVersions, allowSkip, backing, response>>
    /\ UNCHANGED metricsVars

\* mutant: the runtime version reached is not carried to the next transition
AppendUpgrades_RuntimeNotCarried ==
    /\ pc = "ret"
    /\ upgradeSteps' = upgradeSteps \o upgrades
    /\ currentRancher' = keyVersions[idx]
    /\ idx' = idx + 1
    /\ pc' = "loop"
    /\ UNCHANGED <<paths, req, run, prev, versions, keyVersions,
                   platformLower, currentK8s, err, k8sVersions, currentVer,
                   allowSkip, upgrades, backing, response>>
    /\ UNCHANGED metricsVars

\* PlanUpgrade takes the returned steps (lines 146-152)
AppendUpgrades ==
    /\ pc = "ret"
    /\ upgradeSteps' = upgradeSteps \o upgrades
    /\ currentK8s' = IF upgrades = <<>> THEN currentK8s
                     ELSE upgrades[Len(upgrades)].To
    /\ currentRancher' = keyVersions[idx]
    /\ idx' = idx + 1
    /\ pc' = "loop"
    /\ UNCHANGED <<paths, req, run, prev, versions, keyVersions,
                   platformLower, err, k8sVersions, currentVer, allowSkip,
                   upgrades, backing, response>>
    /\ UNCHANGED metricsVars

\* mutant: an error is reported inside a success body
Response_ErrorInBody(upgradePath, e) ==
    [status |-> 200,
     body   |-> IF e THEN [upgrade_path |-> upgradePath, error |-> "err.Error()"]
                ELSE [upgrade_path |-> upgradePath]]

\* the response the handler sends for PlanUpgrade's results (lines 433-441)
Response(upgradePath, e) ==
    IF e THEN [status |-> 500, body |-> [error |-> "err.Error()"]]
    ELSE [status |-> 200, body |-> [upgrade_path |-> upgradePath]]

\* the handler answers the request
Respond ==
    /\ pc = "done"
    /\ response' = Response(upgradeSteps, err)
    /\ pc' = "responded"
    /\ UNCHANGED <<paths, req, run, prev, versions, keyVersions, idx,
                   platformLower, currentRancher, currentK8s, upgradeSteps,
                   err, k8sVersions, currentVer, allowSkip, upgrades, backing>>
    /\ UNCHANGED metricsVars

\* the To of the last step of the given type, or dflt when there is none
RECURSIVE LastTo(_, _, _)
LastTo(plan, type, dflt) ==
    IF plan = <<>> THEN dflt
    ELSE IF plan[Len(plan)].Type = type THEN plan[Len(plan)].To
    ELSE LastTo(SubSeq(plan, 1, Len(plan) - 1), type, dflt)

\* a second request, made with the versions a returned plan ends at
Replan ==
    /\ pc = "responded"
    /\ run = 1
    /\ ~err
    /\ upgradeSteps # <<>>
    /\ prev' = [req |-> req, plan |-> upgradeSteps]
    /\ req' = [platform |-> req.platform,
               rancher  |-> LastTo(upgradeSteps, "Rancher", req.rancher),
               k8s      |-> LastTo(upgradeSteps, "Kubernetes", req.k8s)]
    /\ run' = 2
    /\ pc' = "request"
    /\ versions' = <<>>
    /\ keyVersions' = <<>>
    /\ idx' = 0
    /\ platformLower' = ""
    /\ currentRancher' = Plain(<<>>)
    /\ currentK8s' = Plain(<<>>)
    /\ upgradeSteps' = <<>>
    /\ err' = FALSE
    /\ k8sVersions' = <<>>
    /\ currentVer' = NoVersion
    /\ allowSkip' = FALSE
    /\ upgrades' = <<>>
    /\ response' = NoResponse
    /\ UNCHANGED <<paths, backing>>
    /\ UNCHANGED metricsVars

Next ==
    \/ Handler
    \/ PlanStart
    \/ PlanReturn
    \/ LoopSkip
    \/ LoopVisit
    \/ K8sStep
    \/ OutOfMemory
    \/ AppendUpgrades
    \/ Respond
    \/ Replan

Spec == Init /\ [][Next]_vars

----------------------------------------------------------------------------
(* updateRequestTimestamps, called by concurrent requests *)

\* mutant: a timestamp exactly as old as the window is kept
FirstRecentFrom_AtOrAfter(list, cutoff, i) ==
    IF \E k \in i..Len(list) : list[k] >= cutoff
    THEN (CHOOSE k \in i..Len(list) :
             list[k] >= cutoff /\ \A j \in i..(k - 1) : list[j] < cutoff) - 1
    ELSE 0

\* the loop of lines 461-467 from position i on: the offset of the first
\* timestamp after the cutoff, or 0 when there is none
RECURSIVE FirstRecentFrom(_, _, _)
FirstRecentFrom(list, cutoff, i) ==
    IF i > Len(list) THEN 0
    ELSE IF list[i] > cutoff THEN i - 1
    ELSE FirstRecentFrom(list, cutoff, i + 1)

\* the planner is at rest while the metrics are observed
MetricsInit ==
    /\ paths = UnevenMatrix
    /\ req = NoRequest
    /\ run = 1
    /\ prev = [req |-> NoRequest, plan |-> <<>>]
    /\ pc = "request"
    /\ versions = <<>>
    /\ keyVersions = <<>>
    /\ idx = 0
    /\ platformLower = ""
    /\ currentRancher = Plain(<<>>)
    /\ currentK8s = Plain(<<>>)
    /\ upgradeSteps = <<>>
    /\ err = FALSE
    /\ k8sVersions = <<>>
    /\ currentVer = NoVersion
    /\ allowSkip = FALSE
    /\ upgrades = <<>>
    /\ backing = LoadedBacking(paths)
    /\ response = NoResponse
    /\ MetricsStart

\* a request reaches the call of line 401
Enter(g) ==
    /\ gpc[g] = "idle"
    /\ calls < MaxCalls
    /\ calls' = calls + 1
    /\ gpc' = [gpc EXCEPT ![g] = "wait"]
    /\ UNCHANGED <<requestTimestamps, totalRequestsLast60Seconds, mu, clock,
                   now, received>>
    /\ UNCHANGED plannerVars

\* mu.Lock() (line 453)
Lock(g) ==
    /\ gpc[g] = "wait"
    /\ mu = 0
    /\ mu' = g
    /\ gpc' = [gpc EXCEPT ![g] = "locked"]
    /\ UNCHANGED <<requestTimestamps, totalRequestsLast60Seconds, clock, now,
                   received, calls>>
    /\ UNCHANGED plannerVars

\* now := time.Now() and the append (lines 456-457); received keeps every
\* timestamp ever taken
Stamp(g) ==
    /\ gpc[g] = "locked"
    /\ now' = [now EXCEPT ![g] = clock]
    /\ requestTimestamps' = Append(requestTimestamps, clock)
    /\ received' = Append(received, clock)
    /\ gpc' = [gpc EXCEPT ![g] = "stamped"]
    /\ UNCHANGED <<totalRequestsLast60Seconds, mu, clock, calls>>
    /\ UNCHANGED plannerVars

\* the removal of old timestamps (lines 460-468)
Prune(g) ==
    /\ gpc[g] = "stamped"
    /\ LET cutoff == now[g] - Window
           first  == FirstRecentFrom(requestTimestamps, cutoff, 1)
       IN  requestTimestamps' =
               SubSeq(requestTimestamps, first + 1, Len(requestTimestamps))
    /\ gpc' = [gpc EXCEPT ![g] = "pruned"]
    /\ UNCHANGED <<totalRequestsLast60Seconds, mu, clock, now, received, calls>>
    /\ UNCHANGED plannerVars

\* totalRequestsLast60Seconds.Set (line 471)
SetGauge(g) ==
    /\ gpc[g] = "pruned"
    /\ totalRequestsLast60Seconds' = Len(requestTimestamps)
    /\ gpc' = [gpc EXCEPT ![g] = "set"]
    /\ UNCHANGED <<requestTimestamps, mu, clock, now, received, calls>>
    /\ UNCHANGED plannerVars

\* the deferred mu.Unlock() (line 454)
Unlock(g) ==
    /\ gpc[g] = "set"
    /\ mu' = 0
    /\ gpc' = [gpc EXCEPT ![g] = "idle"]
    /\ UNCHANGED <<requestTimestamps, totalRequestsLast60Seconds, clock, now,
                   received, calls>>
    /\ UNCHANGED plannerVars

\* time passes
Tick ==
    /\ \E d \in TickSizes :
          /\ clock + d <= MaxClock
          /\ clock' = clock + d
    /\ UNCHANGED <<requestTimestamps, totalRequestsLast60Seconds, mu, gpc,
                   now, received, calls>>
    /\ UNCHANGED plannerVars

MetricsNext ==
    \/ \E g \in Goroutines : Enter(g)
    \/ \E g \in Goroutines : Lock(g)
    \/ \E g \in Goroutines : Stamp(g)
    \/ \E g \in Goroutines : Prune(g)
    \/ \E g \in Goroutines : SetGauge(g)
    \/ \E g \in Goroutines : Unlock(g)
    \/ Tick

MetricsSpec == MetricsInit /\ [][MetricsNext]_vars

----------------------------------------------------------------------------
(* Vocabulary of the properties *)

\* the version a step's from/to string names
StepVersion(str) == NewVersion(cleanVersion(str))

Minor(v) == v.segments[2]

Major(v) == v.segments[1]

StepsOfType(plan, type) == SelectSeq(plan, LAMBDA st : st.Type = type)

\* the key-version policy, stated on the strings of the versions list
PolicyKey(v) ==
    \/ v.junk = "" /\ v.meta = "" /\ Len(v.segs) >= 2 /\ v.segs[Len(v.segs)] = 9
    \/ v \in { Plain(<<2, 7, 5>>), Plain(<<2, 8, 8>>), Plain(<<2, 9, 2>>) }

\* the checkpoint versions of the versions list, as rendered strings
Checkpoints ==
    { String(NewVersion(versions[k])) :
        k \in { j \in 1..Len(versions) : PolicyKey(versions[j]) /\ Parses(versions[j]) } }

\* the skip limit of a requested platform identifier
SkipLimit(platform) ==
    IF platform \in { "rke1", "RKE1", "Rke1", "rke2", "RKE2", "Rke2",
                      "k3s", "K3S", "K3s" }
    THEN 2 ELSE 1

\* the call of GetAllowedK8sUpgrades for the current transition has parsed
\* its start version
StartParsed == Parses(cleanVersion(currentK8s))

\* the start version of the current call of GetAllowedK8sUpgrades
StartVer == NewVersion(cleanVersion(currentK8s))

----------------------------------------------------------------------------
(* C1 *)

\* C1: when the current management version parses, the Rancher steps of
\* the returned plan are strictly increasing in version, and their `to`
\* values are exactly the checkpoint versions strictly greater than the
\* input management version, each once and in ascending order.
C1_RancherStepsCoverCheckpoints ==
    (pc = "done" /\ Parses(req.rancher)) =>
        LET rs == StepsOfType(upgradeSteps, "Rancher")
        IN  /\ ~err
            /\ \A k \in 1..Len(rs) :
                  LessThan(NewVersion(rs[k].From), NewVersion(rs[k].To))
            /\ \A j, k \in 1..Len(rs) :
                  j < k => LessThan(NewVersion(rs[j].To), NewVersion(rs[k].To))
            /\ { rs[k].To : k \in 1..Len(rs) } =
                  { c \in Checkpoints :
                      GreaterThan(NewVersion(c), NewVersion(req.rancher)) }

C1_Witness ==
    /\ pc = "done"
    /\ run = 1
    /\ Parses(req.rancher)
    /\ Len(StepsOfType(upgradeSteps, "Rancher")) = 2
    /\ \E k \in 1..Len(versions) : ~PolicyKey(versions[k])

----------------------------------------------------------------------------
(* C2 *)

\* a step stays within the skip limit S: to > from and to.minor - from.minor <= S
WithinLimit(st, S) ==
    /\ GreaterThan(StepVersion(st.To), StepVersion(st.From))
    /\ Minor(StepVersion(st.To)) - Minor(StepVersion(st.From)) <= S

\* C2: every Kubernetes step emitted within one management-version
\* transition has `to` strictly greater than `from` and raises the minor by
\* at most the skip limit S of the requested platform.
C2_StepsWithinSkipLimit ==
    \A k \in 1..Len(upgrades) : WithinLimit(upgrades[k], SkipLimit(req.platform))

C2_Witness ==
    /\ pc = "ret"
    /\ Len(upgrades) >= 2
    /\ SkipLimit(req.platform) = 2
    /\ \E k \in 1..Len(upgrades) :
          Minor(StepVersion(upgrades[k].To)) - Minor(StepVersion(upgrades[k].From)) = 2

----------------------------------------------------------------------------
(* C3 *)

\* a hop of a chain under skip limit S
Hop(a, b, S) == GreaterThan(b, a) /\ Minor(b) - Minor(a) <= S

\* the fewest hops of a chain through cands from the versions of level to
\* final, n hops having led to level; -1 when no chain reaches final
RECURSIVE HopsFrom(_, _, _, _, _, _)
HopsFrom(level, seen, final, cands, S, n) ==
    IF \E x \in level : Equal(x, final) THEN n
    ELSE LET next == { b \in cands \ seen : \E a \in level : Hop(a, b, S) }
         IN  IF next = {} THEN -1
             ELSE HopsFrom(next, seen \cup next, final, cands, S, n + 1)

\* the fewest hops from the start of the current call to the version it
\* stopped at
MinHops ==
    HopsFrom({StartVer}, {StartVer}, currentVer, SeqToSet(k8sVersions),
             SkipLimit(req.platform), 0)

\* the stepper of the current transition has stopped after a parsed start
StepperStopped == pc = "ret" /\ StartParsed

SameMajor == \A k \in 1..Len(k8sVersions) : Major(k8sVersions[k]) = Major(StartVer)

\* C3 as stated: for every start, candidate sequence and skip limit the
\* stepper emits the fewest possible steps to the final version.
C3_FewestSteps == StepperStopped => MinHops = Len(upgrades)

\* C3 as amended: with S = 2 and the start and all candidates of one major
\* version, no chain of candidates from the start to the final version has
\* fewer hops than the emitted one.
C3_FewestStepsWhenSkipping ==
    (StepperStopped /\ SkipLimit(req.platform) = 2 /\ SameMajor) =>
        MinHops = Len(upgrades)

C3_Witness ==
    /\ StepperStopped
    /\ SkipLimit(req.platform) = 2
    /\ SameMajor
    /\ Len(upgrades) = 3
    /\ MinHops = 3

----------------------------------------------------------------------------
(* C4 *)

\* C4: for all platforms Kubernetes is upgraded incrementally: no
\* Kubernetes step of a plan raises the minor version by more than one.
C4_NoMinorSkipped ==
    \A k \in 1..Len(upgrades) :
        Minor(StepVersion(upgrades[k].To)) - Minor(StepVersion(upgrades[k].From)) <= 1

----------------------------------------------------------------------------
(* C5 *)

----------------------------------------------------------------------------
(* C6 *)

\* the matrix of the scenarios: 2.8.0 -> [1.24.0, 1.27.0] and
\* 2.9.2 -> [1.26.0, 1.29.0]
ScenarioPaths ==
    [k \in { Plain(<<2, 8, 0>>), Plain(<<2, 9, 2>>) } |->
        IF k = Plain(<<2, 8, 0>>) THEN Entry(<<K8s(24, 0), K8s(27, 0)>>)
        ELSE Entry(<<K8s(26, 0), K8s(29, 0)>>)]

ScenarioRequest(platform) ==
    [platform |-> platform, rancher |-> Plain(<<2, 8, 0>>), k8s |-> K8s(24, 0)]

\* the Kubernetes step from 1.a.0 to 1.b.0 as the plan spells it
KStep(platform, a, b) ==
    UpgradeStep("Kubernetes", platform, PrependV(K8s(a, 0)), PrependV(K8s(b, 0)))

RStep(from, to) == UpgradeStep("Rancher", "", from, to)

\* the greatest minor among the candidates of the current call
TopCandidateMinor ==
    CHOOSE n \in { Minor(k8sVersions[k]) : k \in 1..Len(k8sVersions) } :
        \A k \in 1..Len(k8sVersions) : Minor(k8sVersions[k]) <= n

\* the candidates are of the start's major version and cover every minor
\* from the start's minor to the greatest one
Covering ==
    /\ SameMajor
    /\ \A n \in Minor(StartVer)..TopCandidateMinor :
          \E k \in 1..Len(k8sVersions) : Minor(k8sVersions[k]) = n

Least(a, b) == IF a <= b THEN a ELSE b

----------------------------------------------------------------------------
(* C7 *)

\* the number of steps of the current call whose target has minor n
StepsInto(n) ==
    Cardinality({ j \in 1..Len(upgrades) : Minor(StepVersion(upgrades[j].To)) = n })

C7_Scenario ==
    (pc = "done" /\ paths = ScenarioPaths /\ req = ScenarioRequest("eks")) =>
        /\ ~err
        /\ upgradeSteps = << RStep(Plain(<<2, 8, 0>>), Plain(<<2, 9, 2>>)),
                             KStep("eks", 24, 25), KStep("eks", 25, 26),
                             KStep("eks", 26, 27), KStep("eks", 27, 28),
                             KStep("eks", 28, 29) >>

\* no two candidates of the current call have the same minor
OnePerMinor ==
    \A j, k \in 1..Len(k8sVersions) :
        Minor(k8sVersions[j]) = Minor(k8sVersions[k]) => j = k

\* C7 as stated: in the S = 1 scenario the plan has exactly one runtime
\* step per minor version, and in general an S = 1 plan contains one
\* runtime step for each minor version between start and final version.
C7_OneStepPerMinor ==
    /\ C7_Scenario
    /\ (StepperStopped /\ SkipLimit(req.platform) = 1) =>
          \A n \in (Minor(StartVer) + 1)..Minor(currentVer) : StepsInto(n) = 1

\* C7 as amended: in the S = 1 scenario the plan has exactly one runtime
\* step per minor version; in general an S = 1 run of the stepper never
\* skips a minor, so every minor version between start and final version
\* is the target of at least one runtime step, and of exactly one when no
\* two candidates have the same minor.
C7_NoMinorSkippedWithoutSkip ==
    /\ C7_Scenario
    /\ (StepperStopped /\ SkipLimit(req.platform) = 1) =>
          /\ \A n \in (Minor(StartVer) + 1)..Minor(currentVer) : StepsInto(n) >= 1
          /\ OnePerMinor =>
                \A n \in (Minor(StartVer) + 1)..Minor(currentVer) : StepsInto(n) = 1

C7_Witness ==
    /\ StepperStopped
    /\ SkipLimit(req.platform) = 1
    /\ Minor(currentVer) = Minor(StartVer) + 2
    /\ StepsInto(Minor(currentVer)) = 2

----------------------------------------------------------------------------
(* C8 *)

\* no PlatformSupport entry of management-version entry r is for platform
NoSupport(r, platform) ==
    \A k \in 1..Len(r.SupportedPlatforms) :
        ToLower(r.SupportedPlatforms[k].Platform) # ToLower(platform)

\* C8: if the requested platform matches no PlatformSupport entry of
\* either management version of a transition, the plan still contains the
\* ManagementUpgrade step of that transition, contains no RuntimeUpgrade
\* step for it, and PlanUpgrade returns no error.
C8_UnsupportedPlatform ==
    /\ ( /\ pc = "ret"
         /\ NoSupport(RancherManager(paths, currentRancher), req.platform)
         /\ NoSupport(RancherManager(paths, keyVersions[idx]), req.platform) ) =>
          /\ upgrades = <<>>
          /\ ~err
          /\ upgradeSteps # <<>>
          /\ upgradeSteps[Len(upgradeSteps)] = RStep(currentRancher, keyVersions[idx])
    /\ ( /\ pc = "done"
         /\ Parses(req.rancher)
         /\ \A key \in DOMAIN paths : NoSupport(paths[key], req.platform) ) =>
          /\ ~err
          /\ StepsOfType(upgradeSteps, "Kubernetes") = <<>>
          /\ { upgradeSteps[k].To : k \in 1..Len(upgradeSteps) } =
                { c \in Checkpoints :
                    GreaterThan(NewVersion(c), NewVersion(req.rancher)) }

C8_Witness ==
    /\ pc = "ret"
    /\ req.platform = "gke"
    /\ StartParsed
    /\ RancherManager(paths, currentRancher).SupportedPlatforms # <<>>
    /\ RancherManager(paths, keyVersions[idx]).SupportedPlatforms # <<>>
    /\ upgrades = <<>>
    /\ upgradeSteps[Len(upgradeSteps)].Type = "Rancher"

----------------------------------------------------------------------------
(* C9 *)

\* C9: if the current management version equals or exceeds the latest
\* checkpoint version, the returned plan has no ManagementUpgrade step.
C9_NothingAboveLatestCheckpoint ==
    ( /\ pc = "done"
      /\ Parses(req.rancher)
      /\ \A c \in Checkpoints :
            ~LessThan(NewVersion(req.rancher), NewVersion(c)) ) =>
        /\ ~err
        /\ StepsOfType(upgradeSteps, "Rancher") = <<>>

C9_Witness ==
    /\ pc = "done"
    /\ run = 1
    /\ req.rancher = Plain(<<2, 9, 2>>)
    /\ Plain(<<2, 9, 2>>) \in Checkpoints
    /\ Plain(<<2, 8, 9>>) \in Checkpoints
    /\ upgradeSteps = <<>>

----------------------------------------------------------------------------
(* C10 *)

\* C10: planning again from the versions a non-empty plan ends at (the
\* `to` of its last Rancher step and of its last Kubernetes step, or the
\* original runtime version when it has none), with the same platform and
\* matrix, returns an empty plan.
C10_ReplanIsEmpty ==
    ( /\ pc = "done"
      /\ run = 2
      /\ prev.plan # <<>>
      /\ req.platform = prev.req.platform
      /\ req.rancher = LastTo(prev.plan, "Rancher", prev.req.rancher)
      /\ req.k8s = LastTo(prev.plan, "Kubernetes", prev.req.k8s) ) =>
        /\ ~err
        /\ upgradeSteps = <<>>

C10_Witness ==
    /\ pc = "done"
    /\ run = 2
    /\ Len(StepsOfType(prev.plan, "Kubernetes")) >= 2
    /\ Len(StepsOfType(prev.plan, "Rancher")) = 2
    /\ req.k8s # prev.req.k8s
    /\ upgradeSteps = <<>>

----------------------------------------------------------------------------
(* C11 *)

\* C11: when PlanUpgrade has returned, a current management version that
\* does not parse has produced an error, and an error always comes with an
\* empty step list: no call returns steps together with an error.
C11_ErrorOrCompletePlan ==
    pc = "done" =>
        /\ ~Parses(req.rancher) => err
        /\ err => upgradeSteps = <<>>

\* a call on a matrix with checkpoints has failed on its current version
C11_Witness ==
    /\ pc = "done"
    /\ err
    /\ ~Parses(req.rancher)
    /\ upgradeSteps = <<>>
    /\ keyVersions # <<>>

----------------------------------------------------------------------------
(* C12 *)

\* C12: when a management version of the matrix matches the key-version
\* policy and does not parse, the request is aborted: PlanUpgrade returns an
\* error and no steps.
C12_UnparsableCheckpointAborts ==
    (pc = "done" /\ \E k \in DOMAIN paths : IsKeyVersionString(k) /\ ~Parses(k))
        => err /\ upgradeSteps = <<>>

----------------------------------------------------------------------------
(* C13 *)

\* C13: when the current runtime version of the request does not parse (and
\* the current management version does), PlanUpgrade raises no error, no
\* transition contributes a Kubernetes step, and the returned plan consists
\* of the Rancher steps to exactly the checkpoints above the input version.
C13_UnparsableRuntimeVersion ==
    (Parses(req.rancher) /\ ~Parses(cleanVersion(req.k8s))) =>
        /\ ~err
        /\ upgrades = <<>>
        /\ StepsOfType(upgradeSteps, "Kubernetes") = <<>>
        /\ pc = "done" =>
               /\ { upgradeSteps[k].To : k \in 1..Len(upgradeSteps) } =
                      { c \in Checkpoints :
                          GreaterThan(NewVersion(c), NewVersion(req.rancher)) }
               /\ Len(upgradeSteps) =
                      Cardinality({ c \in Checkpoints :
                          GreaterThan(NewVersion(c), NewVersion(req.rancher)) })

\* a plan over two transitions, each with candidate runtime versions for the
\* platform, was returned for a runtime version that does not parse
C13_Witness ==
    /\ pc = "done"
    /\ ~Parses(cleanVersion(req.k8s))
    /\ ~err
    /\ Len(upgradeSteps) = 2
    /\ upgradeSteps[1].Type = "Rancher" /\ upgradeSteps[2].Type = "Rancher"
    /\ k8sVersions # <<>>

----------------------------------------------------------------------------
(* C14 *)

\* the stepper has emitted at most as many steps as it has candidates
StepperBounded == Len(upgrades) <= Len(k8sVersions)

\* C14: every call of PlanUpgrade terminates: no call is lost in the
\* expansion of a range, whatever the major versions of its endpoints, and
\* the stepper's loop is bounded by its candidates.
C14_EveryCallTerminates ==
    /\ pc # "crashed"
    /\ StepperBounded

----------------------------------------------------------------------------
(* C15 *)

\* the platform entries the current call of GetAllowedK8sUpgrades reads for
\* the requested platform: those of the version left and of the version
\* visited
CallEntries ==
    LET r1 == RancherManager(paths, currentRancher)
        r2 == RancherManager(paths, keyVersions[idx])
    IN  { p \in SeqToSet(r1.SupportedPlatforms \o r2.SupportedPlatforms) :
            ToLower(p.Platform) = platformLower }

\* both ends of the entry parse
Wellformed(p) ==
    Parses(cleanVersion(p.MinVersion)) /\ Parses(cleanVersion(p.MaxVersion))

MinOf(p) == NewVersion(cleanVersion(p.MinVersion))

MaxOf(p) == NewVersion(cleanVersion(p.MaxVersion))

\* the entry's minimum is above its maximum
ReversedEntry(p) == Wellformed(p) /\ GreaterThan(MinOf(p), MaxOf(p))

\* the call is in its stepper loop or has left it
InCall == pc \in { "step", "ret" }

\* C15: an entry whose minimum is above its maximum contributes no
\* candidate, neither an endpoint nor a version in between: when every entry
\* the call reads for the platform is such an entry, the candidate list
\* holds nothing but the start version.
C15_ReversedRangeYieldsNothing ==
    (InCall /\ \A p \in CallEntries : ReversedEntry(p)) =>
        \A k \in 1..Len(k8sVersions) :
            StartParsed /\ k8sVersions[k] = StartVer

----------------------------------------------------------------------------
(* C16 *)

\* the steps the loop of lines 178-191 emits from cur on the candidate list
RECURSIVE StepperRun(_, _, _)
StepperRun(cur, list, skip) ==
    LET nextVer == findNextAcceptableK8sVersion(cur, list, skip)
    IN  IF nextVer = <<>> THEN <<>>
        ELSE <<UpgradeStep("Kubernetes", platformLower,
                           PrependV(Original(cur)),
                           PrependV(Original(nextVer[1])))>>
             \o StepperRun(nextVer[1], list, skip)

\* every candidate list the current call could have stepped through: one for
\* each order in which the map iteration and the sort may leave the versions
\* that compare equal
CandidateLists ==
    LET r1 == RancherManager(paths, currentRancher)
        r2 == RancherManager(paths, keyVersions[idx])
    IN  UNION { WithCurrent(StartVer, sorted) :
                  sorted \in getSortedK8sVersions(platformLower, r1, r2) }

\* C16: PlanUpgrade is deterministic: the Kubernetes steps a call of
\* GetAllowedK8sUpgrades has returned are the steps it returns under every
\* other map iteration order and every other order of candidates that
\* compare equal, with the same from/to strings.
C16_PlanIsDeterministic ==
    (pc = "ret" /\ StartParsed) =>
        \A list \in CandidateLists :
            StepperRun(StartVer, list, AllowSkip(platformLower)) = upgrades

----------------------------------------------------------------------------
(* C17 *)

\* C17: no request writes to the matrix: every SupportedPlatforms slice and
\* the whole backing array behind it hold what the loader left there.
C17_MatrixNeverWritten == backing = LoadedBacking(paths)

----------------------------------------------------------------------------
(* C18 *)

\* C18: the response has status 500 exactly when PlanUpgrade returned an
\* error, and then its body holds the field error and nothing else;
\* otherwise it is a success whose body holds only upgrade_path, equal to
\* the returned step list. No body holds both fields.
C18_ResponseMatchesResult ==
    pc = "responded" =>
        /\ err <=> response.status = 500
        /\ err => DOMAIN response.body = { "error" }
        /\ ~err => /\ response.status = 200
                   /\ DOMAIN response.body = { "upgrade_path" }
                   /\ response.body.upgrade_path = upgradeSteps

\* a failed call has been answered
C18_Witness ==
    /\ pc = "responded"
    /\ err
    /\ response.status = 500
    /\ ~Parses(req.rancher)

----------------------------------------------------------------------------
(* C19 *)

\* C19: the list getSortedK8sVersions returns is strictly increasing under
\* the version ordering: sorted, and no two of its elements compare equal.
\* (k8sVersions is that list, with the start version added by line 171 only
\* when no element equals it.)
C19_CandidatesStrictlyIncreasing ==
    InCall =>
        \A k \in 1..(Len(k8sVersions) - 1) :
            LessThan(k8sVersions[k], k8sVersions[k + 1])

\* the order part of C19 alone: the list is ascending
CandidatesAscending ==
    InCall =>
        \A k \in 1..(Len(k8sVersions) - 1) :
            LessThanOrEqual(k8sVersions[k], k8sVersions[k + 1])

----------------------------------------------------------------------------
(* C20 *)

\* the entry's minimum is at most its maximum, of the same major version
OrderedEntry(p) ==
    /\ Wellformed(p)
    /\ LessThanOrEqual(MinOf(p), MaxOf(p))
    /\ Major(MinOf(p)) = Major(MaxOf(p))

\* the versions major.k.0 with min.minor < k that are at most the maximum
MinorsBetween(p) ==
    { v \in { NewVersion(Plain(<<Major(MinOf(p)), k, 0>>)) :
                k \in (Minor(MinOf(p)) + 1)..(Minor(MaxOf(p)) + 1) } :
        LessThanOrEqual(v, MaxOf(p)) }

\* the start version, which line 171 may add to the candidates
StartAdded == IF StartParsed THEN { StartVer } ELSE {}

ExactEndpoints(p) ==
    IF Equal(MaxOf(p), MinOf(p)) THEN { MinOf(p) } ELSE { MinOf(p), MaxOf(p) }

----------------------------------------------------------------------------
(* C21 *)

\* the entries of one management version for the requested platform whose
\* two ends parse
EntriesAt(key) ==
    { p \in SeqToSet(RancherManager(paths, key).SupportedPlatforms) :
        ToLower(p.Platform) = platformLower /\ Wellformed(p) }

\* the expansion of one entry
Expansion(p) == SeqToSet(getMinorVersionsBetween(MinOf(p), MaxOf(p), p))

\* C21: in a call of GetAllowedK8sUpgrades, when only one of the two
\* management versions has an entry for the platform whose ends parse, the
\* candidates (the start version aside) are the expansion of that entry, in
\* ascending order; when neither has one there are no candidates; entries
\* that do not parse are left out and no error is raised.
C21_DegradesToTheOtherEntry ==
    InCall =>
        LET E1 == EntriesAt(currentRancher)
            E2 == EntriesAt(keyVersions[idx])
        IN  /\ ~err
            /\ (E1 = {} /\ E2 = {}) => SeqToSet(k8sVersions) \subseteq StartAdded
            /\ \A p \in E1 \cup E2 :
                  (E1 \cup E2 = { p } /\ (E1 = {} \/ E2 = {})) =>
                      /\ SeqToSet(k8sVersions) \cup StartAdded =
                             Expansion(p) \cup StartAdded
                      /\ \A k \in 1..(Len(k8sVersions) - 1) :
                             LessThanOrEqual(k8sVersions[k], k8sVersions[k + 1])

\* the version left has an entry for the platform that does not parse, the
\* version visited has one that does, and the call has its candidates
C21_Witness ==
    /\ InCall
    /\ paths = MalformedMatrix
    /\ platformLower = "rke2"
    /\ currentRancher = Plain(<<2, 8, 0>>)
    /\ EntriesAt(currentRancher) = {}
    /\ Cardinality(EntriesAt(keyVersions[idx])) = 1
    /\ Len(k8sVersions) >= 4

----------------------------------------------------------------------------
(* C22 *)

\* the platform identifiers that differ in letter case only
CaseClasses ==
    { { "rke2", "RKE2" }, { "rke1", "Rke1" }, { "k3s", "K3S" },
      { "eks", "EKS" }, { "gke" } }

SameButCase(a, b) == \E c \in CaseClasses : a \in c /\ b \in c

\* the candidate lists of the current call, had the platform been written q
CandidateListsFor(q) ==
    LET r1 == RancherManager(paths, currentRancher)
        r2 == RancherManager(paths, keyVersions[idx])
    IN  UNION { WithCurrent(StartVer, sorted) :
                  sorted \in getSortedK8sVersions(ToLower(q), r1, r2) }

\* the versions a list of steps goes through
StepVersions(steps) ==
    [k \in 1..Len(steps) |->
        <<StepVersion(steps[k].From).segments, StepVersion(steps[k].To).segments>>]

\* C22: platform matching ignores letter case: a call reads exactly the
\* well-formed entries whose platform is the requested one up to case, and
\* the steps it returns go through the same versions as the steps for the
\* same request with its platform written in any other case.
C22_PlatformCaseInsensitive ==
    InCall =>
        /\ SeqToSet(k8sVersions) \cup StartAdded =
               UNION { Expansion(p) :
                         p \in { e \in SeqToSet(
                                    RancherManager(paths, currentRancher).SupportedPlatforms
                                    \o RancherManager(paths, keyVersions[idx]).SupportedPlatforms) :
                                  SameButCase(e.Platform, req.platform) /\ Wellformed(e) } }
               \cup StartAdded
        /\ (pc = "ret" /\ StartParsed) =>
               \A q \in { x \in UNION CaseClasses : SameButCase(x, req.platform) } :
                   \A list \in CandidateListsFor(q) :
                       StepVersions(StepperRun(StartVer, list, AllowSkip(ToLower(q))))
                           = StepVersions(upgrades)

\* a request that writes the platform in capitals has been stepped over
\* entries written in small letters
C22_Witness ==
    /\ pc = "ret"
    /\ req.platform = "RKE2"
    /\ Len(upgrades) >= 2
    /\ \E p \in CallEntries : p.Platform = "rke2"

----------------------------------------------------------------------------
(* C23 *)

\* what the stepper's next call of findNextAcceptableK8sVersion returns
NextFound == findNextAcceptableK8sVersion(currentVer, k8sVersions, allowSkip)

\* the candidates strictly greater than the current version
Greater == { v \in SeqToSet(k8sVersions) : GreaterThan(v, currentVer) }

\* those of them within the minor bound of the requested platform
Qualifying ==
    { v \in Greater : Minor(v) <= Minor(currentVer) + SkipLimit(req.platform) }

\* the result the claim describes: none exactly when nothing qualifies; with
\* S = 2 a greatest qualifying candidate; with S = 1 a smallest greater
\* candidate, which qualifies
AsClaimed(found) ==
    /\ found = <<>> <=> Qualifying = {}
    /\ found # <<>> =>
          IF SkipLimit(req.platform) = 2
          THEN /\ found[1] \in Qualifying
               /\ \A v \in Qualifying : LessThanOrEqual(v, found[1])
          ELSE /\ found[1] \in Qualifying
               /\ \A v \in Greater : LessThanOrEqual(found[1], v)

----------------------------------------------------------------------------
(* C24 *)

\* the versions a chain of hops under skip limit S can reach from seen
RECURSIVE ReachFrom(_, _, _)
ReachFrom(seen, cands, S) ==
    LET next == { b \in cands \ seen : \E a \in seen : Hop(a, b, S) }
    IN  IF next = {} THEN seen ELSE ReachFrom(seen \cup next, cands, S)

\* the versions reachable from the start of the current call
Reachable ==
    ReachFrom({StartVer}, SeqToSet(k8sVersions), SkipLimit(req.platform))

\* the version the stepper stopped at is the greatest reachable one, and no
\* candidate above it is within the minor bound
StoppedAtGreatest ==
    /\ \A v \in Reachable : LessThanOrEqual(v, currentVer)
    /\ Qualifying = {}

----------------------------------------------------------------------------
(* C25 *)

\* C25: the plan is ordered and chained. While a transition's Kubernetes
\* steps are being found, the plan ends with that transition's Rancher step,
\* so the steps of a transition follow its Rancher step at once; a plan
\* starts with a Rancher step. Each Rancher step starts where the previous
\* one ended, the first at the input management version as given. Each
\* Kubernetes step starts where the previous Kubernetes step of the plan
\* ended, the first at the input runtime version (steps spell it with a
\* leading "v").
C25_PlanOrderedAndChained ==
    LET R == StepsOfType(upgradeSteps, "Rancher")
        K == StepsOfType(upgradeSteps, "Kubernetes")
    IN  /\ InCall =>
              /\ upgradeSteps # <<>>
              /\ upgradeSteps[Len(upgradeSteps)] =
                     UpgradeStep("Rancher", "", currentRancher, keyVersions[idx])
        /\ upgradeSteps # <<>> => upgradeSteps[1].Type = "Rancher"
        /\ \A k \in 1..Len(R) :
              R[k].From = IF k = 1 THEN req.rancher ELSE R[k - 1].To
        /\ \A k \in 1..Len(K) :
              IF k = 1 THEN cleanVersion(K[k].From) = cleanVersion(req.k8s)
              ELSE K[k].From = K[k - 1].To

\* a returned plan whose first transition has no Kubernetes step and whose
\* second one has some
C25_Witness ==
    /\ pc = "done"
    /\ Len(upgradeSteps) >= 4
    /\ upgradeSteps[1].Type = "Rancher"
    /\ upgradeSteps[2].Type = "Rancher"
    /\ upgradeSteps[3].Type = "Kubernetes"
    /\ upgradeSteps[4].Type = "Kubernetes"

\* a returned plan with Kubernetes steps in two transitions
C25_CarriedWitness ==
    /\ pc = "done"
    /\ \E i, j, k \in 1..Len(upgradeSteps) :
          /\ i < j /\ j < k
          /\ upgradeSteps[i].Type = "Kubernetes"
          /\ upgradeSteps[j].Type = "Rancher"
          /\ upgradeSteps[k].Type = "Kubernetes"

----------------------------------------------------------------------------
(* C26 *)

\* PlanUpgrade has computed its key versions
KeysComputed == pc \notin { "request", "plan" }

\* C26: the key versions are, in ascending order, exactly the versions of
\* the list that parse and whose string ends in ".9" or is 2.7.5, 2.8.8 or
\* 2.9.2, one for each; and every version PlanUpgrade visits is one of them
\* and strictly greater than the current management version of the request.
C26_KeyVersionsAndVisits ==
    KeysComputed =>
        /\ SeqToSet(keyVersions) = Checkpoints
        /\ Len(keyVersions) =
               Cardinality({ j \in 1..Len(versions) :
                               PolicyKey(versions[j]) /\ Parses(versions[j]) })
        /\ \A k \in 1..(Len(keyVersions) - 1) :
               LessThanOrEqual(NewVersion(keyVersions[k]), NewVersion(keyVersions[k + 1]))
        /\ \A k \in 1..Len(upgradeSteps) :
               upgradeSteps[k].Type = "Rancher" =>
                   /\ upgradeSteps[k].To \in Checkpoints
                   /\ Parses(req.rancher)
                   /\ GreaterThan(NewVersion(upgradeSteps[k].To), NewVersion(req.rancher))

\* a plan from one key version to the next, over a list that also holds a
\* version that is no key version
C26_Witness ==
    /\ pc = "done"
    /\ Len(versions) = 3
    /\ Len(keyVersions) = 2
    /\ req.rancher = Plain(<<2, 8, 9>>)
    /\ Len(StepsOfType(upgradeSteps, "Rancher")) = 1

----------------------------------------------------------------------------
(* C27 *)

\* C27: when a call of updateRequestTimestamps has set the gauge, whatever
\* the other requests have done in between, the retained list is in
\* non-decreasing order, holds only timestamps later than 60 seconds before
\* the call's now, holds the call's now, and the gauge is the number of
\* requests received in the 60 seconds up to now.
C27_SlidingWindow ==
    \A g \in Goroutines :
        gpc[g] = "set" =>
            /\ \A k \in 1..(Len(requestTimestamps) - 1) :
                   requestTimestamps[k] <= requestTimestamps[k + 1]
            /\ \A k \in 1..Len(requestTimestamps) :
                   requestTimestamps[k] > now[g] - Window
            /\ \E k \in 1..Len(requestTimestamps) : requestTimestamps[k] = now[g]
            /\ totalRequestsLast60Seconds =
                   Cardinality({ k \in 1..Len(received) :
                                   received[k] > now[g] - Window })

\* a call has dropped a timestamp exactly 60 seconds old and kept a younger
\* one, while another request waits for the lock
C27_Witness ==
    \E g, h \in Goroutines :
        /\ gpc[g] = "set"
        /\ gpc[h] = "wait"
        /\ \E k \in 1..Len(received) : received[k] = now[g] - Window
        /\ Len(requestTimestamps) >= 2
        /\ Len(received) > Len(requestTimestamps)

----------------------------------------------------------------------------
(* C28 *)

\* C28: the matrix is looked up by the management version string as given:
\* when the current management version of the request is not, character
\* for character, a key of the matrix, the first transition takes its
\* candidates from the entries of the version visited alone, no error is
\* raised and the transition's Rancher step is emitted.
C28_LookupByExactString ==
    (InCall /\ currentRancher = req.rancher /\ req.rancher \notin DOMAIN paths) =>
        /\ ~err
        /\ SeqToSet(k8sVersions) \cup StartAdded =
               UNION { Expansion(p) : p \in EntriesAt(keyVersions[idx]) }
               \cup StartAdded
        /\ upgradeSteps =
               <<UpgradeStep("Rancher", "", req.rancher, keyVersions[idx])>>

\* the request spells a version of the matrix with a leading "v"; the
\* matrix has a range for the platform under that version, and the first
\* transition has stepped without it
C28_Witness ==
    /\ pc = "ret"
    /\ currentRancher = req.rancher
    /\ req.rancher = PrependV(Plain(<<2, 8, 0>>))
    /\ Plain(<<2, 8, 0>>) \in DOMAIN paths
    /\ \E p \in SeqToSet(paths[Plain(<<2, 8, 0>>)].SupportedPlatforms) :
          /\ ToLower(p.Platform) = platformLower
          /\ Wellformed(p)
          /\ ~(Expansion(p) \subseteq SeqToSet(k8sVersions))
    /\ upgrades # <<>>

----------------------------------------------------------------------------
(* C29 *)

\* the Kubernetes steps planned so far: those PlanUpgrade has taken and,
\* inside a call of GetAllowedK8sUpgrades, those of the call
KubernetesSoFar ==
    StepsOfType(upgradeSteps, "Kubernetes")
        \o (IF InCall THEN upgrades ELSE <<>>)

\* C29: over the whole plan, across the transitions of the management
\* version, the versions the Kubernetes steps go to are strictly increasing
\* and each is strictly greater than the runtime version of the request,
\* wherever that version lies relative to the supported ranges.
C29_RuntimeNeverDecreases ==
    \A k \in 1..Len(KubernetesSoFar) :
        GreaterThan(StepVersion(KubernetesSoFar[k].To),
                    IF k = 1 THEN StepVersion(req.k8s)
                    ELSE StepVersion(KubernetesSoFar[k - 1].To))

\* a returned plan for a runtime version below every range, with
\* Kubernetes steps in two transitions
C29_Witness ==
    /\ pc = "done"
    /\ req.k8s = K8s(22, 0)
    /\ Len(StepsOfType(upgradeSteps, "Rancher")) >= 2
    /\ \E j \in 2..(Len(upgradeSteps) - 1) :
          /\ upgradeSteps[j - 1].Type = "Kubernetes"
          /\ upgradeSteps[j].Type = "Rancher"
          /\ upgradeSteps[j + 1].Type = "Kubernetes"

\* a call for a runtime version above every range of the transition has
\* returned without a step
C29_AboveWitness ==
    /\ pc = "ret"
    /\ req.k8s = K8s(30, 0)
    /\ k8sVersions # <<>>
    /\ Len(k8sVersions) >= 3
    /\ upgrades = <<>>

----------------------------------------------------------------------------
(* C30 *)

\* the versions the call's entries for the platform expand to
Produced == UNION { Expansion(p) : p \in { q \in CallEntries : Wellformed(q) } }

\* v lies in the range of entry p
InRange(v, p) ==
    /\ Wellformed(p)
    /\ LessThanOrEqual(MinOf(p), v)
    /\ LessThanOrEqual(v, MaxOf(p))

\* the step goes to a version the expansion produced
TargetProduced(st) == \E v \in Produced : st.To = PrependV(Original(v))

\* the step goes to the start version of the call
TargetIsStart(st) == StartParsed /\ Equal(StepVersion(st.To), StartVer)

\* the step goes to a version in the range of one of the call's entries
TargetInARange(st) == \E p \in CallEntries : InRange(StepVersion(st.To), p)

\* C30: every Kubernetes step of a call goes to a version the expansion of
\* the call's entries produced, never to the inserted start version, and
\* never to a version outside the ranges of the requested platform in the
\* management version left and the one visited.
C30_TargetsComeFromTheRanges ==
    InCall =>
        \A k \in 1..Len(upgrades) :
            /\ TargetProduced(upgrades[k])
            /\ ~TargetIsStart(upgrades[k])
            /\ TargetInARange(upgrades[k])

====
